---- MODULE Spec2Model ----
(***************************************************************************)
(* Ticket lifecycle and settlement engine of the parking system: the       *)
(* cashier routes (check-in, check-out, receipt/recovery, shifts) and the  *)
(* slot status API, over the SQLite tables of database/init.               *)
(*                                                                         *)
(* Every handler is a chain of storage calls.  One action models one       *)
(* storage call together with the callback that consumes its result, which *)
(* is the unit the sqlite3 driver runs atomically; calls of different      *)
(* requests interleave freely (db.serialize only orders the calls issued   *)
(* synchronously inside its callback, and no handler opens a transaction). *)
(* Time is counted in whole minutes and read in the server's own time      *)
(* zone, money in whole units; the clock moves in steps of 36 minutes,     *)
(* between requests.                                                       *)
(***************************************************************************)
EXTENDS Integers, Sequences, FiniteSets, Bags, TLC

\* ---- bounds of the model ----
NumSlots == 1
NumCashiers == 2
MaxReq == 2
MaxOps == 4
MaxTickets == 2
MaxPayments == 3
MaxShifts == 3
MaxTime == 72
MaxFaults == 1
MaxDays == 1
NumPlates == 2

\* ---- program constants ----
MinutesPerHour == 60
MinutesPerDay == 1440
DefaultHourlyRate == 5
DefaultRecoveryAmount == 5

NULL == -1

SlotIds == 1..NumSlots
Cashiers == 1..NumCashiers
Requests == 1..MaxReq
\* the default administrator and the cashiers
Admins == {0}
Users == Admins \cup Cashiers
TickSteps == {36}
SlotStatuses == {"vacant", "occupied", "reserved", "out_of_service"}

VARIABLES
  users,            \* ids of the user rows
  vehicles,         \* sequence of vehicle rows, id = index (Gone once replaced)
  drivers,          \* sequence of driver rows, id = index
  parking_slots,    \* slot id -> [status, hourly_rate]
  parking_tickets,  \* sequence of ticket rows, id = index (Gone once deleted)
  payments,         \* sequence of payment rows, id = index (Gone once deleted)
  shifts,           \* sequence of shift rows, id = index (Gone once deleted)
  audit_logs,       \* bag of audit rows (their order is never read)
  req,              \* request slot -> handler position and locals
  clock,            \* wall clock, minutes
  dateNow,          \* last value returned by Date.now()
  faults,           \* storage failures injected so far
  started           \* requests accepted so far

vars == <<users, vehicles, drivers, parking_slots, parking_tickets, payments, shifts, audit_logs,
          req, clock, dateNow, faults, started>>

\* ---- request records ----
Idle ==
  [op |-> "none", pc |-> "idle", res |-> "none", user |-> 0, id |-> 0,
   slot_id |-> 0, number |-> 0, ticketId |-> 0, hourly_rate |-> 0,
   total_amount |-> 0, check_in_time |-> 0, check_out_time |-> 0,
   durationHours |-> 0, totalCost |-> 0, method |-> "none",
   status |-> "none", amount |-> 0, closing_amount |-> 0, totalCollected |-> 0,
   paymentCheck |-> 0, force_delete |-> "none", todo |-> {}, failed |-> FALSE,
   license_plate |-> 0, driver_name |-> 0, vehicleId |-> 0, driverId |-> 0]

Free(r) == req[r].pc \in {"idle", "done", "hung"}

\* a request is taken by the lowest request slot that is not in flight
Admit(r) ==
  /\ Free(r)
  /\ \A q \in Requests : q < r => ~Free(q)
  /\ started < MaxOps

\* the response is sent: the locals are dead, the outcome stays visible
Respond(r, result) ==
  [req EXCEPT ![r] = [Idle EXCEPT !.pc = "done", !.res = result]]

\* the handler ends without ever answering the request
NoResponse(r) ==
  [req EXCEPT ![r] = [Idle EXCEPT !.pc = "hung"]]

\* a storage call may fail while the failure budget lasts
Errs == IF faults < MaxFaults THEN {FALSE, TRUE} ELSE {FALSE}
Charge(err) == faults' = faults + (IF err THEN 1 ELSE 0)

\* ---- pure helpers ----
\* a slip: the hours are rounded down
CeilHours_floor(minutes) == minutes \div MinutesPerHour

\* Math.ceil(minutes / 60) for a duration in whole minutes
CeilHours(minutes) == (minutes + MinutesPerHour - 1) \div MinutesPerHour

\* hours * rate in JavaScript: a rate that is null (or '') counts as 0
Times(hours, rate) == IF rate = NULL THEN 0 ELSE hours * rate

\* DATE(t) of a timestamp
Date(t) == t \div MinutesPerDay

\* a deleted row keeps its place: the ids are AUTOINCREMENT, never used again
GoneVehicle == [license_plate |-> 0]
GoneTicket ==
  [ticket_number |-> 0, slot_id |-> 0, vehicle_id |-> 0, driver_id |-> 0,
   cashier_id |-> NULL, check_in_time |-> NULL,
   check_out_time |-> NULL, duration_hours |-> NULL, total_amount |-> NULL,
   payment_status |-> "deleted"]
GonePayment ==
  [ticket_id |-> 0, amount |-> 0, payment_method |-> "none",
   reference_number |-> "none", cashier_id |-> NULL, receipt_number |-> 0,
   payment_date |-> NULL]
GoneShift ==
  [cashier_id |-> NULL, shift_date |-> NULL, open_time |-> NULL, close_time |-> NULL,
   opening_amount |-> 0, closing_amount |-> 0, total_collected |-> 0, variance |-> 0,
   status |-> "deleted"]

VehicleRows == {i \in 1..Len(vehicles) : vehicles[i] # GoneVehicle}
DriverRows == 1..Len(drivers)
TicketRows == {i \in 1..Len(parking_tickets) : parking_tickets[i] # GoneTicket}
PaymentRows == {i \in 1..Len(payments) : payments[i] # GonePayment}

\* FOREIGN KEY (cashier_id / user_id) REFERENCES users (id)
UserExists(u) == u \in users

RowsOf(ticketId) == {i \in 1..Len(payments) : payments[i].ticket_id = ticketId}

\* a slip: the recovery path never looks for an existing payment
PaymentCheck_none(ticketId) == 0

\* SELECT id ... FROM payments WHERE ticket_id = ?  (db.get: the first row, 0 if none)
PaymentCheck(ticketId) ==
  IF RowsOf(ticketId) = {} THEN 0
  ELSE CHOOSE i \in RowsOf(ticketId) : \A j \in RowsOf(ticketId) : i <= j

TicketNumbers == {parking_tickets[i].ticket_number : i \in TicketRows}
ReceiptNumbers == {payments[i].receipt_number : i \in PaymentRows}

\* Date.now() stamps are only ever compared for equality.  dateNow is the
\* latest stamp; a reading repeats it (same millisecond) or moves past it.
\* A stamp nobody holds is as good as a new one, so it is handed out first.
Held ==
  \/ dateNow \in TicketNumbers \cup ReceiptNumbers
  \/ \E r \in Requests : req[r].number = dateNow
DateNow == IF Held THEN {dateNow, dateNow + 1} ELSE {dateNow}

\* a slip: the event is written without the id of the record
AuditRow_noRecord(u, action, record) ==
  [user_id |-> u, action |-> action, record_id |-> 0]

\* logAudit: one INSERT INTO audit_logs
AuditRow(u, action, record) ==
  [user_id |-> u, action |-> action, record_id |-> record]

Init ==
  /\ users = Users
  /\ vehicles = <<>>
  /\ drivers = <<>>
  /\ parking_slots = [s \in SlotIds |->
        [status |-> "vacant",
         hourly_rate |-> IF s = 1 THEN DefaultHourlyRate ELSE 3]]
  /\ parking_tickets = <<>>
  /\ payments = <<>>
  /\ shifts = <<>>
  /\ audit_logs = EmptyBag
  /\ req = [r \in Requests |-> Idle]
  /\ clock = 0
  /\ dateNow = 1
  /\ faults = 0
  /\ started = 0

\* time passes
Tick(d) ==
  /\ clock + d <= MaxTime
  /\ clock' = clock + d
  /\ dateNow' = IF Held THEN dateNow + 1 ELSE dateNow
  /\ UNCHANGED <<users, vehicles, drivers, parking_slots, parking_tickets, payments, shifts, audit_logs,
                 req, faults, started>>

\* ---- POST /cashier/check-in ----
\* a slip: only an occupied slot is refused
SlotVacant_notOccupied(s) == s \in SlotIds /\ parking_slots[s].status # "occupied"

\* !slot || slot.status !== "vacant" is false: the row exists and is vacant
SlotVacant(s) == s \in SlotIds /\ parking_slots[s].status = "vacant"

OpenCheckIns == Cardinality({r \in Requests : req[r].op = "checkIn" /\ ~Free(r)})

CheckIn(r, s, license_plate, driver_name, u, complete) ==
  /\ Admit(r)
  /\ Len(parking_tickets) + OpenCheckIns < MaxTickets
  /\ started' = started + 1
  /\ \E err \in Errs :
       /\ Charge(err)
       /\ LET q == [req EXCEPT ![r] = Idle]
          IN  IF ~complete
              THEN /\ req' = [q EXCEPT ![r].pc = "done", ![r].res = "ValidationError"]
                   /\ err = FALSE
              ELSE IF err \/ ~SlotVacant(s)
              THEN req' = [q EXCEPT ![r].pc = "done", ![r].res = "SlotUnavailable"]
              ELSE req' = [q EXCEPT ![r].op = "checkIn", ![r].pc = "ci_vehicle", ![r].user = u,
                                    ![r].slot_id = s, ![r].license_plate = license_plate,
                                    ![r].driver_name = driver_name]
  /\ UNCHANGED <<users, vehicles, drivers, parking_slots, parking_tickets, payments, shifts,
                 audit_logs, clock, dateNow>>

\* the rows of: license_plate VARCHAR(20) UNIQUE NOT NULL
VehiclesOf(license_plate) ==
  {i \in VehicleRows : vehicles[i].license_plate = license_plate}

\* a slip: the tickets do not hold the vehicle rows
VehicleReferenced_never(v) == FALSE

\* FOREIGN KEY (vehicle_id) REFERENCES vehicles (id): a ticket names the row
VehicleReferenced(v) == \E t \in TicketRows : parking_tickets[t].vehicle_id = v

\* INSERT OR REPLACE INTO vehicles: a row with the same license plate is
\* deleted and the new row gets a new id; the foreign key of the tickets
\* refuses the statement when a ticket names the row to be deleted
CheckInVehicle(r) ==
  /\ req[r].pc = "ci_vehicle"
  /\ \E err \in Errs :
       /\ Charge(err)
       /\ LET old == VehiclesOf(req[r].license_plate)
          IN  IF err \/ \E v \in old : VehicleReferenced(v)
              THEN /\ req' = Respond(r, "SystemError")
                   /\ UNCHANGED vehicles
              ELSE /\ vehicles' =
                        Append([i \in 1..Len(vehicles) |->
                                  IF i \in old THEN GoneVehicle ELSE vehicles[i]],
                               [license_plate |-> req[r].license_plate])
                   /\ req' = [req EXCEPT ![r].pc = "ci_driver", ![r].license_plate = 0,
                                         ![r].vehicleId = Len(vehicles) + 1]
  /\ UNCHANGED <<users, drivers, parking_slots, parking_tickets, payments, shifts,
                 audit_logs, clock, dateNow, started>>

\* INSERT OR REPLACE INTO drivers: the table has no UNIQUE column, so this is
\* always a new row
CheckInDriver(r) ==
  /\ req[r].pc = "ci_driver"
  /\ \E err \in Errs :
       /\ Charge(err)
       /\ IF err
          THEN /\ req' = Respond(r, "SystemError")
               /\ UNCHANGED <<drivers, dateNow>>
          ELSE \E now \in DateNow :
                 /\ dateNow' = now
                 /\ drivers' = Append(drivers, [full_name |-> req[r].driver_name])
                 /\ req' = [req EXCEPT ![r].pc = "ci_ticket", ![r].number = now,
                                       ![r].driver_name = 0,
                                       ![r].driverId = Len(drivers) + 1]
  /\ UNCHANGED <<users, vehicles, parking_slots, parking_tickets, payments, shifts,
                 audit_logs, clock, started>>

\* a slip: the table has no UNIQUE constraint on ticket_number
TicketNumberTaken_never(n) == FALSE

\* ticket_number VARCHAR(20) UNIQUE NOT NULL: the INSERT fails on a number in use
TicketNumberTaken(n) == n \in TicketNumbers

CheckInTicket(r) ==
  /\ req[r].pc = "ci_ticket"
  /\ \E err \in Errs :
       /\ Charge(err)
       /\ IF \/ err \/ TicketNumberTaken(req[r].number) \/ ~UserExists(req[r].user)
             \/ req[r].vehicleId \notin VehicleRows \/ req[r].driverId \notin DriverRows
          THEN /\ req' = Respond(r, "SystemError")
               /\ UNCHANGED parking_tickets
          ELSE /\ parking_tickets' = Append(parking_tickets,
                    [ticket_number |-> req[r].number, slot_id |-> req[r].slot_id,
                     vehicle_id |-> req[r].vehicleId, driver_id |-> req[r].driverId,
                     cashier_id |-> req[r].user, check_in_time |-> clock,
                     check_out_time |-> NULL, duration_hours |-> NULL,
                     total_amount |-> NULL, payment_status |-> "pending"])
               /\ req' = [req EXCEPT ![r].pc = "ci_slot", ![r].number = 0,
                                     ![r].vehicleId = 0, ![r].driverId = 0,
                                     ![r].ticketId = Len(parking_tickets) + 1]
  /\ UNCHANGED <<users, vehicles, drivers, parking_slots, payments, shifts, audit_logs, clock, dateNow, started>>

CheckInSlot(r) ==
  /\ req[r].pc = "ci_slot"
  /\ \E err \in Errs :
       /\ Charge(err)
       /\ parking_slots' = IF err THEN parking_slots
                           ELSE [parking_slots EXCEPT ![req[r].slot_id].status = "occupied"]
  /\ req' = [req EXCEPT ![r].pc = "ci_audit"]
  /\ UNCHANGED <<users, vehicles, drivers, parking_tickets, payments, shifts, audit_logs, clock, dateNow, started>>

CheckInAudit(r) ==
  /\ req[r].pc = "ci_audit"
  /\ \E err \in Errs :
       /\ Charge(err)
       /\ IF err \/ ~UserExists(req[r].user)
          THEN /\ req' = NoResponse(r)
               /\ UNCHANGED audit_logs
          ELSE /\ audit_logs' = audit_logs (+) SetToBag({AuditRow(req[r].user, "CHECK_IN", req[r].ticketId)})
               /\ req' = Respond(r, "ok")
  /\ UNCHANGED <<users, vehicles, drivers, parking_slots, parking_tickets, payments, shifts, clock, dateNow, started>>

\* ---- POST /cashier/check-out/:id ----
PaymentWriters ==
  Cardinality({r \in Requests : req[r].op \in {"checkOut", "receipt"} /\ ~Free(r)})

CheckOut(r, id, u, method) ==
  /\ Admit(r)
  /\ Len(payments) + PaymentWriters < MaxPayments
  /\ started' = started + 1
  /\ \E err \in Errs :
       /\ Charge(err)
       /\ LET q == [req EXCEPT ![r] = Idle]
          IN  IF method = "none"
              THEN /\ req' = [q EXCEPT ![r].pc = "done", ![r].res = "ValidationError"]
                   /\ err = FALSE
              ELSE IF err
              THEN req' = [q EXCEPT ![r].pc = "done", ![r].res = "SystemError"]
              ELSE IF id \notin TicketRows
              THEN req' = [q EXCEPT ![r].pc = "done", ![r].res = "TicketNotFound"]
              ELSE LET ticket == parking_tickets[id]
                       hourly_rate == parking_slots[ticket.slot_id].hourly_rate
                       durationHours == clock - ticket.check_in_time
                   IN  req' = [q EXCEPT ![r].op = "checkOut", ![r].pc = "co_ticket", ![r].user = u,
                                        ![r].id = id, ![r].method = method,
                                        ![r].slot_id = ticket.slot_id,
                                        ![r].durationHours = durationHours,
                                        ![r].totalCost =
                                           Times(CeilHours(durationHours), hourly_rate)]
  /\ UNCHANGED <<users, vehicles, drivers, parking_slots, parking_tickets, payments, shifts, audit_logs,
                 clock, dateNow>>

CheckOutTicket(r) ==
  /\ req[r].pc = "co_ticket"
  /\ \E err \in Errs :
       /\ Charge(err)
       /\ IF err
          THEN /\ req' = NoResponse(r)
               /\ UNCHANGED <<parking_tickets, dateNow>>
          ELSE /\ parking_tickets' =
                    IF req[r].id \notin TicketRows THEN parking_tickets
                    ELSE [parking_tickets EXCEPT ![req[r].id] =
                            [@ EXCEPT !.check_out_time = clock,
                                      !.duration_hours = req[r].durationHours,
                                      !.total_amount = req[r].totalCost,
                                      !.payment_status = "paid"]]
               /\ \E now \in DateNow :
                    /\ dateNow' = now
                    /\ req' = [req EXCEPT ![r].pc = "co_payment", ![r].number = now]
  /\ UNCHANGED <<users, vehicles, drivers, parking_slots, payments, shifts, audit_logs, clock, started>>

\* a slip: the table has no UNIQUE constraint on receipt_number
ReceiptNumberTaken_never(n) == FALSE

\* receipt_number VARCHAR(50) UNIQUE: the INSERT fails on a number in use
ReceiptNumberTaken(n) == n \in ReceiptNumbers

CheckOutPayment(r) ==
  /\ req[r].pc = "co_payment"
  /\ \E err \in Errs :
       /\ Charge(err)
       /\ IF \/ err \/ ReceiptNumberTaken(req[r].number)
             \/ req[r].id \notin TicketRows \/ ~UserExists(req[r].user)
          THEN /\ req' = Respond(r, "SystemError")
               /\ UNCHANGED payments
          ELSE /\ payments' = Append(payments,
                    [ticket_id |-> req[r].id, amount |-> req[r].totalCost,
                     payment_method |-> req[r].method, reference_number |-> "none",
                     cashier_id |-> req[r].user, receipt_number |-> req[r].number,
                     payment_date |-> clock])
               /\ req' = [req EXCEPT ![r].pc = "co_slot", ![r].number = 0]
  /\ UNCHANGED <<users, vehicles, drivers, parking_slots, parking_tickets, shifts, audit_logs, clock,
                 dateNow, started>>

CheckOutSlot(r) ==
  /\ req[r].pc = "co_slot"
  /\ \E err \in Errs :
       /\ Charge(err)
       /\ parking_slots' = IF err THEN parking_slots
                           ELSE [parking_slots EXCEPT ![req[r].slot_id].status = "vacant"]
  /\ req' = [req EXCEPT ![r].pc = "co_audit"]
  /\ UNCHANGED <<users, vehicles, drivers, parking_tickets, payments, shifts, audit_logs, clock, dateNow, started>>

CheckOutAudit(r) ==
  /\ req[r].pc = "co_audit"
  /\ \E err \in Errs :
       /\ Charge(err)
       /\ IF err \/ ~UserExists(req[r].user)
          THEN /\ req' = NoResponse(r)
               /\ UNCHANGED audit_logs
          ELSE /\ audit_logs' = audit_logs (+) SetToBag({AuditRow(req[r].user, "CHECK_OUT", req[r].id)})
               /\ req' = Respond(r, "ok")
  /\ UNCHANGED <<users, vehicles, drivers, parking_slots, parking_tickets, payments, shifts, clock, dateNow, started>>

\* ---- GET /cashier/receipt/:id, with the payment recovery path ----
Receipt(r, id, u) ==
  /\ Admit(r)
  /\ Len(payments) + PaymentWriters < MaxPayments
  /\ started' = started + 1
  /\ \E err \in Errs :
       /\ Charge(err)
       /\ LET q == [req EXCEPT ![r] = Idle]
          IN  IF err
              THEN req' = [q EXCEPT ![r].pc = "done", ![r].res = "SystemError"]
              ELSE IF id \notin TicketRows
              THEN req' = [q EXCEPT ![r].pc = "done", ![r].res = "TicketNotFound"]
              ELSE IF parking_tickets[id].payment_status # "paid"
              THEN req' = [q EXCEPT ![r].pc = "done", ![r].res = "PaymentRequired"]
              ELSE LET ticket == parking_tickets[id]
                   IN  req' = [q EXCEPT ![r].op = "receipt", ![r].pc = "rc_check", ![r].user = u,
                                        ![r].id = id,
                                        ![r].total_amount = ticket.total_amount,
                                        ![r].check_in_time = ticket.check_in_time,
                                        ![r].check_out_time = ticket.check_out_time]
  /\ UNCHANGED <<users, vehicles, drivers, parking_slots, parking_tickets, payments, shifts, audit_logs,
                 clock, dateNow>>

ReceiptCheck(r) ==
  /\ req[r].pc = "rc_check"
  /\ \E err \in Errs :
       /\ Charge(err)
       /\ IF err
          THEN /\ req' = Respond(r, "SystemError")
               /\ UNCHANGED dateNow
          ELSE IF PaymentCheck(req[r].id) # 0
          THEN /\ req' = [req EXCEPT ![r].pc = "rc_receipt", ![r].total_amount = 0,
                                     ![r].check_in_time = 0, ![r].check_out_time = 0,
                                     ![r].paymentCheck = PaymentCheck(req[r].id)]
               /\ UNCHANGED dateNow
          ELSE \E now \in DateNow :
                 /\ dateNow' = now
                 /\ IF req[r].total_amount = NULL \/ req[r].total_amount = 0
                    THEN req' = [req EXCEPT ![r].pc = "rc_slot", ![r].number = now]
                    ELSE req' = [req EXCEPT ![r].pc = "rc_insert", ![r].number = now,
                                            ![r].amount = req[r].total_amount,
                                            ![r].total_amount = 0,
                                            ![r].check_in_time = 0,
                                            ![r].check_out_time = 0]
  /\ UNCHANGED <<users, vehicles, drivers, parking_slots, parking_tickets, payments, shifts, audit_logs,
                 clock, started>>

ReceiptSlot(r) ==
  /\ req[r].pc = "rc_slot"
  /\ \E err \in Errs :
       /\ Charge(err)
       /\ IF err
          THEN req' = Respond(r, "PaymentRecordMissing")
          ELSE LET slotInfo == parking_slots[parking_tickets[req[r].id].slot_id]
                   durationHours == req[r].check_out_time - req[r].check_in_time
                   paymentAmount ==
                     IF /\ req[r].id \in TicketRows
                        /\ req[r].check_in_time # NULL /\ req[r].check_out_time # NULL
                     THEN Times(CeilHours(durationHours), slotInfo.hourly_rate)
                     ELSE DefaultRecoveryAmount
               IN  req' = [req EXCEPT ![r].pc = "rc_insert", ![r].amount = paymentAmount,
                                      ![r].total_amount = 0, ![r].check_in_time = 0,
                                      ![r].check_out_time = 0]
  /\ UNCHANGED <<users, vehicles, drivers, parking_slots, parking_tickets, payments, shifts, audit_logs,
                 clock, dateNow, started>>

\* a slip: the recovered payment is booked as a card payment
RecoveryRow_card(ticketId, paymentAmount, u, recoveryReceiptNumber) ==
  [ticket_id |-> ticketId, amount |-> paymentAmount,
   payment_method |-> "card", reference_number |-> "RECOVERY",
   cashier_id |-> u, receipt_number |-> recoveryReceiptNumber,
   payment_date |-> clock]

\* the row of the recovery INSERT INTO payments: "cash", "RECOVERY"
RecoveryRow(ticketId, paymentAmount, u, recoveryReceiptNumber) ==
  [ticket_id |-> ticketId, amount |-> paymentAmount,
   payment_method |-> "cash", reference_number |-> "RECOVERY",
   cashier_id |-> u, receipt_number |-> recoveryReceiptNumber,
   payment_date |-> clock]

ReceiptInsert(r) ==
  /\ req[r].pc = "rc_insert"
  /\ \E err \in Errs :
       /\ Charge(err)
       /\ IF \/ err \/ ReceiptNumberTaken(req[r].number)
             \/ req[r].id \notin TicketRows \/ ~UserExists(req[r].user)
          THEN /\ req' = Respond(r, "PaymentRecordMissing")
               /\ UNCHANGED payments
          ELSE /\ payments' = Append(payments,
                    RecoveryRow(req[r].id, req[r].amount, req[r].user, req[r].number))
               /\ req' = [req EXCEPT ![r].pc = "rc_receipt", ![r].number = 0,
                                     ![r].amount = 0]
  /\ UNCHANGED <<users, vehicles, drivers, parking_slots, parking_tickets, shifts, audit_logs, clock,
                 dateNow, started>>

ReceiptJoin(r) ==
  /\ req[r].pc = "rc_receipt"
  /\ \E err \in Errs :
       /\ Charge(err)
       /\ req' = IF err THEN Respond(r, "SystemError")
                 ELSE IF \/ RowsOf(req[r].id) = {}
                         \/ parking_tickets[req[r].id].vehicle_id \notin VehicleRows
                         \/ parking_tickets[req[r].id].driver_id \notin DriverRows
                      THEN Respond(r, "ReceiptNotFound")
                 ELSE Respond(r, "ok")
  /\ UNCHANGED <<users, vehicles, drivers, parking_slots, parking_tickets, payments, shifts, audit_logs,
                 clock, dateNow, started>>

\* ---- PUT /api/slots/:id/status ----
SlotStatus(r, s, status) ==
  /\ Admit(r)
  /\ started' = started + 1
  /\ \E err \in Errs :
       /\ Charge(err)
       /\ LET q == [req EXCEPT ![r] = Idle]
          IN  IF status \notin SlotStatuses
              THEN /\ req' = [q EXCEPT ![r].pc = "done", ![r].res = "ValidationError"]
                   /\ err = FALSE
              ELSE IF err
              THEN req' = [q EXCEPT ![r].pc = "done", ![r].res = "SystemError"]
              ELSE IF s \notin SlotIds
              THEN req' = [q EXCEPT ![r].pc = "done", ![r].res = "SlotNotFound"]
              ELSE req' = [q EXCEPT ![r].op = "slotStatus", ![r].pc = "ss_update", ![r].id = s,
                                    ![r].status = status]
  /\ UNCHANGED <<users, vehicles, drivers, parking_slots, parking_tickets, payments, shifts, audit_logs,
                 clock, dateNow>>

SlotStatusUpdate(r) ==
  /\ req[r].pc = "ss_update"
  /\ \E err \in Errs :
       /\ Charge(err)
       /\ IF err
          THEN /\ req' = Respond(r, "SystemError")
               /\ UNCHANGED parking_slots
          ELSE /\ parking_slots' = [parking_slots EXCEPT ![req[r].id].status = req[r].status]
               /\ req' = [req EXCEPT ![r].pc = "ss_audit", ![r].status = "none"]
  /\ UNCHANGED <<users, vehicles, drivers, parking_tickets, payments, shifts, audit_logs, clock, dateNow, started>>

SlotStatusAudit(r) ==
  /\ req[r].pc = "ss_audit"
  /\ \E err \in Errs :
       /\ Charge(err)
       /\ IF err
          THEN /\ req' = NoResponse(r)
               /\ UNCHANGED audit_logs
          ELSE /\ audit_logs' = audit_logs (+) SetToBag({AuditRow(0, "UPDATE_SLOT_STATUS", req[r].id)})
               /\ req' = Respond(r, "ok")
  /\ UNCHANGED <<users, vehicles, drivers, parking_slots, parking_tickets, payments, shifts, clock, dateNow, started>>

\* ---- POST /admin/slots/edit/:id ----
\* a field the form leaves out is bound as NULL
NoStatus == "NULL"

\* status TEXT CHECK(status IN ('vacant', 'occupied', 'reserved',
\* 'out_of_service')): a CHECK refuses what evaluates to false, and NULL IN
\* (...) evaluates to NULL
StatusCheck(status) == status \in SlotStatuses \/ status = NoStatus

\* slot_number and slot_name are required; the form's hourly_rate and status
\* go into the UPDATE as they come
SlotEdit(r, s, hourly_rate, status, complete) ==
  /\ Admit(r)
  /\ started' = started + 1
  /\ \E err \in Errs :
       /\ Charge(err)
       /\ LET q == [req EXCEPT ![r] = Idle]
          IN  IF ~complete
              THEN /\ req' = [q EXCEPT ![r].pc = "done", ![r].res = "ValidationError"]
                   /\ err = FALSE
              ELSE IF err
              THEN req' = [q EXCEPT ![r].pc = "done", ![r].res = "SystemError"]
              ELSE req' = [q EXCEPT ![r].op = "slotEdit", ![r].pc = "se_update", ![r].id = s,
                                    ![r].hourly_rate = hourly_rate, ![r].status = status]
  /\ UNCHANGED <<users, vehicles, drivers, parking_slots, parking_tickets, payments, shifts,
                 audit_logs, clock, dateNow>>

\* the UPDATE, refused by the table's CHECK on status
SlotEditUpdate(r) ==
  /\ req[r].pc = "se_update"
  /\ \E err \in Errs :
       /\ Charge(err)
       /\ IF err \/ ~StatusCheck(req[r].status)
          THEN /\ req' = Respond(r, "SystemError")
               /\ UNCHANGED parking_slots
          ELSE /\ parking_slots' =
                    IF req[r].id \in SlotIds
                    THEN [parking_slots EXCEPT ![req[r].id] =
                            [status |-> req[r].status, hourly_rate |-> req[r].hourly_rate]]
                    ELSE parking_slots
               /\ req' = [req EXCEPT ![r].pc = "se_audit", ![r].status = "none",
                                     ![r].hourly_rate = 0]
  /\ UNCHANGED <<users, vehicles, drivers, parking_tickets, payments, shifts, audit_logs,
                 clock, dateNow, started>>

SlotEditAudit(r) ==
  /\ req[r].pc = "se_audit"
  /\ \E err \in Errs :
       /\ Charge(err)
       /\ IF err
          THEN /\ req' = NoResponse(r)
               /\ UNCHANGED audit_logs
          ELSE /\ audit_logs' = audit_logs (+) SetToBag({AuditRow(0, "UPDATE_SLOT", req[r].id)})
               /\ req' = Respond(r, "ok")
  /\ UNCHANGED <<users, vehicles, drivers, parking_slots, parking_tickets, payments, shifts, clock, dateNow, started>>

\* ---- POST /admin/users/delete/:id ----
\* totalReferences > 0: some ticket, payment, shift or audit row names the user
References(u) ==
  \/ \E i \in TicketRows : parking_tickets[i].cashier_id = u
  \/ \E i \in PaymentRows : payments[i].cashier_id = u
  \/ \E i \in 1..Len(shifts) : shifts[i].cashier_id = u
  \/ \E x \in BagToSet(audit_logs) : x.user_id = u

\* a slip: the clean-up runs whatever the form says
ForceDelete_always(flag) == TRUE

\* req.body.force_delete === 'true'
ForceDelete(flag) == flag = "true"

\* the four DELETE statements of the clean-up
Cleanups == {"parking_tickets", "payments", "shifts", "audit_logs"}

\* FOREIGN KEY (ticket_id) REFERENCES parking_tickets (id): a payment row
\* still names one of the user's tickets
TicketsReferenced(u) ==
  \E i \in PaymentRows :
    /\ payments[i].ticket_id \in TicketRows
    /\ parking_tickets[payments[i].ticket_id].cashier_id = u

\* audit_logs without the rows of one user
AuditWithout(u) ==
  LET rest == {x \in BagToSet(audit_logs) : x.user_id # u}
  IN  IF rest = {} THEN EmptyBag ELSE [x \in rest |-> CopiesIn(x, audit_logs)]

\* the user is read; the administrator cannot delete the own account
DeleteUser(r, id, force_delete) ==
  /\ Admit(r)
  /\ started' = started + 1
  /\ \E err \in Errs :
       /\ Charge(err)
       /\ LET q == [req EXCEPT ![r] = Idle]
          IN  IF err
              THEN req' = [q EXCEPT ![r].pc = "done", ![r].res = "SystemError"]
              ELSE IF ~UserExists(id)
              THEN req' = [q EXCEPT ![r].pc = "done", ![r].res = "UserNotFound"]
              ELSE IF id \in Admins
              THEN req' = [q EXCEPT ![r].pc = "done", ![r].res = "OwnAccount"]
              ELSE req' = [q EXCEPT ![r].op = "deleteUser", ![r].pc = "du_count",
                                    ![r].id = id, ![r].force_delete = force_delete]
  /\ UNCHANGED <<users, vehicles, drivers, parking_slots, parking_tickets, payments, shifts, audit_logs,
                 clock, dateNow>>

\* the four COUNT(*) reads, issued together
DeleteUserCount(r) ==
  /\ req[r].pc = "du_count"
  /\ \E err \in Errs :
       /\ Charge(err)
       /\ req' = IF err THEN Respond(r, "SystemError")
                 ELSE IF ~References(req[r].id)
                 THEN [req EXCEPT ![r].pc = "du_user", ![r].force_delete = "none"]
                 ELSE IF ForceDelete(req[r].force_delete)
                 THEN [req EXCEPT ![r].pc = "du_clean", ![r].todo = Cleanups]
                 ELSE Respond(r, "HasReferences")
  /\ UNCHANGED <<users, vehicles, drivers, parking_slots, parking_tickets, payments, shifts, audit_logs,
                 clock, dateNow, started>>

\* one DELETE of the clean-up; the four are queued together without
\* db.serialize, so they run in any order, and each runs even when another
\* one has failed
DeleteUserClean(r, table) ==
  /\ req[r].pc = "du_clean"
  /\ table \in req[r].todo
  /\ \E err \in Errs :
       /\ Charge(err)
       /\ LET u == req[r].id
              ok == ~err /\ ~(table = "parking_tickets" /\ TicketsReferenced(u))
              left == req[r].todo \ {table}
              failed == req[r].failed \/ ~ok
          IN  /\ parking_tickets' =
                   IF ok /\ table = "parking_tickets"
                   THEN [i \in 1..Len(parking_tickets) |->
                           IF parking_tickets[i].cashier_id = u THEN GoneTicket
                           ELSE parking_tickets[i]]
                   ELSE parking_tickets
              /\ payments' =
                   IF ok /\ table = "payments"
                   THEN [i \in 1..Len(payments) |->
                           IF payments[i].cashier_id = u THEN GonePayment
                           ELSE payments[i]]
                   ELSE payments
              /\ shifts' =
                   IF ok /\ table = "shifts"
                   THEN [i \in 1..Len(shifts) |->
                           IF shifts[i].cashier_id = u THEN GoneShift ELSE shifts[i]]
                   ELSE shifts
              /\ audit_logs' = IF ok /\ table = "audit_logs" THEN AuditWithout(u)
                               ELSE audit_logs
              /\ req' = IF left # {}
                        THEN [req EXCEPT ![r].todo = left, ![r].failed = failed]
                        ELSE IF failed THEN Respond(r, "CleanupFailed")
                        ELSE [req EXCEPT ![r].pc = "du_user", ![r].todo = {},
                                         ![r].force_delete = "none"]
  /\ UNCHANGED <<users, vehicles, drivers, parking_slots, clock, dateNow, started>>

\* DELETE FROM users; the foreign keys refuse it while a row names the user
DeleteUserRow(r) ==
  /\ req[r].pc = "du_user"
  /\ \E err \in Errs :
       /\ Charge(err)
       /\ IF err \/ References(req[r].id)
          THEN /\ req' = Respond(r, "SystemError")
               /\ UNCHANGED users
          ELSE /\ users' = users \ {req[r].id}
               /\ req' = [req EXCEPT ![r].pc = "du_audit"]
  /\ UNCHANGED <<vehicles, drivers, parking_slots, parking_tickets, payments, shifts,
                 audit_logs, clock, dateNow, started>>

DeleteUserAudit(r) ==
  /\ req[r].pc = "du_audit"
  /\ \E err \in Errs :
       /\ Charge(err)
       /\ IF err
          THEN /\ req' = NoResponse(r)
               /\ UNCHANGED audit_logs
          ELSE /\ audit_logs' = audit_logs (+) SetToBag({AuditRow(0, "DELETE_USER", req[r].id)})
               /\ req' = Respond(r, "ok")
  /\ UNCHANGED <<users, vehicles, drivers, parking_slots, parking_tickets, payments, shifts, clock,
                 dateNow, started>>

\* ---- POST /cashier/shift/open ----
OpenShift(r, u, opening_amount) ==
  /\ Admit(r)
  /\ Len(shifts) < MaxShifts
  /\ started' = started + 1
  /\ \E err \in Errs :
       /\ Charge(err)
       /\ IF err \/ ~UserExists(u)
          THEN /\ req' = [req EXCEPT ![r] = [Idle EXCEPT !.pc = "done",
                                                         !.res = "SystemError"]]
               /\ UNCHANGED shifts
          ELSE /\ shifts' = Append(shifts,
                    [cashier_id |-> u, shift_date |-> Date(clock), open_time |-> clock,
                     close_time |-> NULL, opening_amount |-> opening_amount,
                     closing_amount |-> 0, total_collected |-> 0, variance |-> 0,
                     status |-> "open"])
               /\ req' = [req EXCEPT ![r] = [Idle EXCEPT !.op = "openShift",
                                                         !.pc = "os_audit", !.user = u,
                                                         !.id = Len(shifts) + 1]]
  /\ UNCHANGED <<users, vehicles, drivers, parking_slots, parking_tickets, payments, audit_logs, clock, dateNow>>

OpenShiftAudit(r) ==
  /\ req[r].pc = "os_audit"
  /\ \E err \in Errs :
       /\ Charge(err)
       /\ IF err \/ ~UserExists(req[r].user)
          THEN /\ req' = NoResponse(r)
               /\ UNCHANGED audit_logs
          ELSE /\ audit_logs' = audit_logs (+) SetToBag({AuditRow(req[r].user, "OPEN_SHIFT", req[r].id)})
               /\ req' = Respond(r, "ok")
  /\ UNCHANGED <<users, vehicles, drivers, parking_slots, parking_tickets, payments, shifts, clock, dateNow, started>>

\* ---- POST /cashier/shift/close ----
\* the rows of: WHERE cashier_id = ? AND shift_date = DATE('now') AND status = 'open'
OpenShiftsOf(u) ==
  {i \in 1..Len(shifts) : /\ shifts[i].cashier_id = u
                          /\ shifts[i].shift_date = Date(clock)
                          /\ shifts[i].status = "open"}

\* a slip: the query forgets the shift_date filter
CurrentShifts_anyDate(u) ==
  {i \in 1..Len(shifts) : shifts[i].cashier_id = u /\ shifts[i].status = "open"}

\* ORDER BY open_time DESC LIMIT 1: any row with the latest open_time
CurrentShifts(u) ==
  {i \in OpenShiftsOf(u) : \A j \in OpenShiftsOf(u) : shifts[j].open_time <= shifts[i].open_time}

RECURSIVE SumCollected(_, _)
\* SUM(p.amount) over payments 1..n JOIN parking_tickets
\* WHERE pt.cashier_id = u AND DATE(p.payment_date) = DATE('now')
SumCollected(u, n) ==
  IF n = 0 THEN 0
  ELSE SumCollected(u, n - 1) +
       (IF /\ payments[n].ticket_id \in TicketRows
           /\ parking_tickets[payments[n].ticket_id].cashier_id = u
           /\ Date(payments[n].payment_date) = Date(clock)
        THEN payments[n].amount ELSE 0)

\* a slip: the difference is taken the other way round
Variance_reversed(closing_amount, totalCollected) == totalCollected - closing_amount

\* const variance = (closing_amount || 0) - totalCollected.total
Variance(closing_amount, totalCollected) == closing_amount - totalCollected

CloseShift(r, u, closing_amount) ==
  /\ Admit(r)
  /\ started' = started + 1
  /\ \E err \in Errs :
       /\ Charge(err)
       /\ LET q == [req EXCEPT ![r] = Idle]
          IN  IF err
              THEN req' = [q EXCEPT ![r].pc = "done", ![r].res = "SystemError"]
              ELSE IF CurrentShifts(u) = {}
              THEN req' = [q EXCEPT ![r].pc = "done", ![r].res = "NoOpenShift"]
              ELSE \E currentShift \in CurrentShifts(u) :
                     req' = [q EXCEPT ![r].op = "closeShift", ![r].pc = "cs_sum",
                                      ![r].user = u, ![r].id = currentShift,
                                      ![r].closing_amount = closing_amount]
  /\ UNCHANGED <<users, vehicles, drivers, parking_slots, parking_tickets, payments, shifts, audit_logs,
                 clock, dateNow>>

CloseShiftSum(r) ==
  /\ req[r].pc = "cs_sum"
  /\ \E err \in Errs :
       /\ Charge(err)
       /\ req' = IF err THEN Respond(r, "SystemError")
                 ELSE [req EXCEPT ![r].pc = "cs_update",
                                  ![r].totalCollected =
                                     SumCollected(req[r].user, Len(payments))]
  /\ UNCHANGED <<users, vehicles, drivers, parking_slots, parking_tickets, payments, shifts, audit_logs,
                 clock, dateNow, started>>

CloseShiftUpdate(r) ==
  /\ req[r].pc = "cs_update"
  /\ \E err \in Errs :
       /\ Charge(err)
       /\ IF err
          THEN /\ req' = Respond(r, "SystemError")
               /\ UNCHANGED shifts
          ELSE /\ shifts' =
                    IF shifts[req[r].id] = GoneShift THEN shifts
                    ELSE [shifts EXCEPT ![req[r].id] =
                            [@ EXCEPT !.close_time = clock,
                                      !.closing_amount = req[r].closing_amount,
                                      !.total_collected = req[r].totalCollected,
                                      !.variance = Variance(req[r].closing_amount,
                                                            req[r].totalCollected),
                                      !.status = "closed"]]
               /\ req' = [req EXCEPT ![r].pc = "cs_audit", ![r].closing_amount = 0,
                                     ![r].totalCollected = 0]
  /\ UNCHANGED <<users, vehicles, drivers, parking_slots, parking_tickets, payments, audit_logs, clock,
                 dateNow, started>>

CloseShiftAudit(r) ==
  /\ req[r].pc = "cs_audit"
  /\ \E err \in Errs :
       /\ Charge(err)
       /\ IF err \/ ~UserExists(req[r].user)
          THEN /\ req' = NoResponse(r)
               /\ UNCHANGED audit_logs
          ELSE /\ audit_logs' = audit_logs (+) SetToBag({AuditRow(req[r].user, "CLOSE_SHIFT", req[r].id)})
               /\ req' = Respond(r, "ok")
  /\ UNCHANGED <<users, vehicles, drivers, parking_slots, parking_tickets, payments, shifts, clock, dateNow, started>>

\* midnight passes
NextDay ==
  /\ Date(clock) < MaxDays
  /\ clock' = (Date(clock) + 1) * MinutesPerDay
  /\ dateNow' = IF Held THEN dateNow + 1 ELSE dateNow
  /\ UNCHANGED <<users, vehicles, drivers, parking_slots, parking_tickets, payments, shifts, audit_logs,
                 req, faults, started>>

\* ---- the requests the operators can send ----
TicketIds == 1..(Len(parking_tickets) + 1)
Methods == {"card", "none"}

Quiet == \A r \in Requests : Free(r)

\* the license plates the system has seen: stored, or given to a check-in
\* that has not stored it yet
KnownPlates ==
  {vehicles[i].license_plate : i \in VehicleRows}
    \cup {req[r].license_plate : r \in {q \in Requests : req[q].pc = "ci_vehicle"}}

\* the car at the gate has not been here before; its driver gives the name
\* the car is registered under
NewPlate == CHOOSE p \in 1..(Cardinality(KnownPlates) + 1) : p \notin KnownPlates

Begin(sessions) ==
  \/ \E r \in Requests, s \in SlotIds \cup {NumSlots + 1}, u \in sessions, c \in BOOLEAN :
        CheckIn(r, s, NewPlate, NewPlate, u, c)
  \/ \E r \in Requests, id \in TicketIds, u \in sessions, m \in Methods :
        CheckOut(r, id, u, m)
  \/ \E r \in Requests, id \in TicketIds, u \in sessions : Receipt(r, id, u)

Admin ==
  \E r \in Requests, s \in SlotIds \cup {NumSlots + 1},
     status \in SlotStatuses \cup {"bogus"} : SlotStatus(r, s, status)

OpeningAmounts == {0, 100}
ClosingAmounts == {0, 325}

ShiftBegin(sessions) ==
  \/ \E r \in Requests, u \in sessions, a \in OpeningAmounts : OpenShift(r, u, a)
  \/ \E r \in Requests, u \in sessions, a \in ClosingAmounts : CloseShift(r, u, a)

ShiftStep(r) ==
  \/ OpenShiftAudit(r)
  \/ CloseShiftSum(r)
  \/ CloseShiftUpdate(r)
  \/ CloseShiftAudit(r)

Step(r) ==
  \/ CheckInVehicle(r)
  \/ CheckInDriver(r)
  \/ CheckInTicket(r)
  \/ CheckInSlot(r)
  \/ CheckInAudit(r)
  \/ CheckOutTicket(r)
  \/ CheckOutPayment(r)
  \/ CheckOutSlot(r)
  \/ CheckOutAudit(r)
  \/ ReceiptCheck(r)
  \/ ReceiptSlot(r)
  \/ ReceiptInsert(r)
  \/ ReceiptJoin(r)

AdminStep(r) ==
  \/ SlotStatusUpdate(r)
  \/ SlotStatusAudit(r)

\* one request at a time; a request is answered within one step of the clock
Next ==
  \/ Quiet /\ \E d \in TickSteps : Tick(d)
  \/ Quiet /\ Begin({1})
  \/ \E r \in Requests : Step(r)

Spec == Init /\ [][Next]_vars

\* the same, with the administrative slot status override
NextAdmin ==
  \/ Next
  \/ Quiet /\ Admin
  \/ \E r \in Requests : AdminStep(r)

SpecAdmin == Init /\ [][NextAdmin]_vars

\* requests of several operators in flight together
NextConc ==
  \/ Quiet /\ \E d \in TickSteps : Tick(d)
  \/ Begin({1})
  \/ \E r \in Requests : Step(r)

SpecConc == Init /\ [][NextConc]_vars

\* the cashiers' shifts, opened and closed by concurrent sessions over two days
NextShift ==
  \/ Quiet /\ NextDay
  \/ ShiftBegin(Cashiers)
  \/ \E r \in Requests : ShiftStep(r)

SpecShift == Init /\ [][NextShift]_vars

\* tickets, payments and shifts of all cashiers over two days: well-formed
\* requests on the first slot, one at a time, cars staying overnight or not
\* at all
LedgerBegin ==
  \/ \E r \in Requests, u \in Cashiers : CheckIn(r, 1, NewPlate, NewPlate, u, TRUE)
  \/ \E r \in Requests, id \in TicketIds, u \in Cashiers : CheckOut(r, id, u, "card")

LedgerStep(r) ==
  \/ CheckInVehicle(r)
  \/ CheckInDriver(r)
  \/ CheckInTicket(r)
  \/ CheckInSlot(r)
  \/ CheckInAudit(r)
  \/ CheckOutTicket(r)
  \/ CheckOutPayment(r)
  \/ CheckOutSlot(r)
  \/ CheckOutAudit(r)

LedgerShiftBegin ==
  \/ \E r \in Requests, u \in Cashiers : OpenShift(r, u, 100)
  \/ \E r \in Requests, u \in Cashiers : CloseShift(r, u, 325)

NextLedger ==
  \/ Quiet /\ NextDay
  \/ Quiet /\ LedgerBegin
  \/ Quiet /\ LedgerShiftBegin
  \/ \E r \in Requests : LedgerStep(r)
  \/ \E r \in Requests : ShiftStep(r)

\* a run in which no storage call fails: the failure budget is spent
InitNoFault ==
  /\ users = Users
  /\ vehicles = <<>>
  /\ drivers = <<>>
  /\ parking_slots = [s \in SlotIds |->
        [status |-> "vacant",
         hourly_rate |-> IF s = 1 THEN DefaultHourlyRate ELSE 3]]
  /\ parking_tickets = <<>>
  /\ payments = <<>>
  /\ shifts = <<>>
  /\ audit_logs = EmptyBag
  /\ req = [r \in Requests |-> Idle]
  /\ clock = 0
  /\ dateNow = 1
  /\ faults = MaxFaults
  /\ started = 0

SpecLedger == InitNoFault /\ [][NextLedger]_vars

\* check-ins and check-outs of all cashiers, one request at a time, in a run
\* in which no storage call fails
NextSettle ==
  \/ Quiet /\ \E d \in TickSteps : Tick(d)
  \/ Quiet /\ LedgerBegin
  \/ \E r \in Requests : LedgerStep(r)

SpecSettle == InitNoFault /\ [][NextSettle]_vars

\* check-ins against slots whose status the administrator overrides, one
\* request at a time
GateBegin ==
  \E r \in Requests, s \in SlotIds \cup {NumSlots + 1}, c \in BOOLEAN :
     CheckIn(r, s, NewPlate, NewPlate, 1, c)

GateStep(r) ==
  \/ CheckInVehicle(r)
  \/ CheckInDriver(r)
  \/ CheckInTicket(r)
  \/ CheckInSlot(r)
  \/ CheckInAudit(r)

NextGate ==
  \/ Quiet /\ GateBegin
  \/ Quiet /\ Admin
  \/ \E r \in Requests : GateStep(r)
  \/ \E r \in Requests : AdminStep(r)

SpecGate == Init /\ [][NextGate]_vars

\* the cashier routes with the administrator editing the slots, one request
\* at a time
SlotsAdmin ==
  \E r \in Requests, s \in SlotIds \cup {NumSlots + 1},
     hourly_rate \in {NULL, DefaultHourlyRate},
     status \in SlotStatuses \cup {"bogus", NoStatus}, c \in BOOLEAN :
       SlotEdit(r, s, hourly_rate, status, c)

SlotsAdminStep(r) ==
  \/ SlotEditUpdate(r)
  \/ SlotEditAudit(r)

NextRates ==
  \/ Next
  \/ Quiet /\ SlotsAdmin
  \/ \E r \in Requests : SlotsAdminStep(r)

SpecRates == Init /\ [][NextRates]_vars

\* check-ins and check-outs of all cashiers with the administrator deleting
\* users, one request at a time
UsersAdmin ==
  \E r \in Requests, id \in Users, force_delete \in {"true", "none"} :
     DeleteUser(r, id, force_delete)

UsersAdminStep(r) ==
  \/ DeleteUserCount(r)
  \/ \E table \in Cleanups : DeleteUserClean(r, table)
  \/ DeleteUserRow(r)
  \/ DeleteUserAudit(r)

NextUsers ==
  \/ Quiet /\ LedgerBegin
  \/ Quiet /\ UsersAdmin
  \/ \E r \in Requests : LedgerStep(r)
  \/ \E r \in Requests : UsersAdminStep(r)

SpecUsers == InitNoFault /\ [][NextUsers]_vars

\* the cashier's desk: well-formed requests of one cashier about existing
\* slots and tickets, one at a time, storage calls failing
DeskBegin ==
  \/ \E r \in Requests, s \in SlotIds : CheckIn(r, s, NewPlate, NewPlate, 1, TRUE)
  \/ \E r \in Requests, id \in 1..Len(parking_tickets) : CheckOut(r, id, 1, "card")
  \/ \E r \in Requests, id \in 1..Len(parking_tickets) : Receipt(r, id, 1)

NextDesk ==
  \/ Quiet /\ \E d \in TickSteps : Tick(d)
  \/ Quiet /\ DeskBegin
  \/ \E r \in Requests : Step(r)

SpecDesk == Init /\ [][NextDesk]_vars

\* the cars of a small fleet coming back: check-ins under license plates and
\* driver names that may have been used before, and check-outs, one request at
\* a time, in a run in which no storage call fails (a ticket insert still
\* fails on a ticket number in use)
Plates == 1..NumPlates

FleetBegin ==
  \/ \E r \in Requests, s \in SlotIds, license_plate \in Plates, driver_name \in Plates :
        CheckIn(r, s, license_plate, driver_name, 1, TRUE)
  \/ \E r \in Requests, id \in 1..Len(parking_tickets) : CheckOut(r, id, 1, "card")

NextFleet ==
  \/ Quiet /\ FleetBegin
  \/ \E r \in Requests : LedgerStep(r)

SpecFleet == InitNoFault /\ [][NextFleet]_vars

(***************************************************************************)
(* The properties                                                          *)
(***************************************************************************)
Tickets == 1..Len(parking_tickets)
RateOf(t) == parking_slots[parking_tickets[t].slot_id].hourly_rate
OpenTicketsOn(s) ==
  {t \in Tickets : parking_tickets[t].slot_id = s /\ parking_tickets[t].check_out_time = NULL}

\* C1: once every request has been answered, each ticket has a check-out time
\* exactly when it is paid, and is paid exactly when one payment row carries
\* its id.
C1_SettledIffOnePayment ==
  Quiet =>
    \A t \in Tickets :
      /\ (parking_tickets[t].check_out_time # NULL) <=>
            (parking_tickets[t].payment_status = "paid")
      /\ (parking_tickets[t].payment_status = "paid") <=>
            (Cardinality(RowsOf(t)) = 1)

\* C2: once every request has been answered, a slot is occupied exactly when
\* one ticket references it with no check-out time.
C2_OccupiedIffOneOpenTicket ==
  Quiet =>
    \A s \in SlotIds :
      (parking_slots[s].status = "occupied") <=> (Cardinality(OpenTicketsOn(s)) = 1)

\* C3: of two check-ins in flight together for the same slot, at most one gets
\* as far as creating its ticket.
C3_OneReservationWins ==
  \A r1, r2 \in Requests :
    (/\ r1 # r2
     /\ req[r1].op = "checkIn" /\ req[r2].op = "checkIn"
     /\ req[r1].slot_id = req[r2].slot_id
     /\ req[r1].pc \in {"ci_slot", "ci_audit"})
    => req[r2].pc \notin {"ci_slot", "ci_audit"}

\* C4: a check-out is refused once its ticket is no longer pending: it never
\* reaches its writes with a ticket that is already paid.
C4_NonPendingRejected ==
  \A r \in Requests :
    req[r].pc = "co_ticket" =>
      parking_tickets[req[r].id].payment_status = "pending"

\* C5: a check-out that ends without success (one of its writes failed) leaves
\* its ticket pending, without check-out time and without payment row.
C5_CheckOutAllOrNothing ==
  [][\A r \in Requests :
       (/\ req[r].op = "checkOut"
        /\ req'[r].pc \in {"done", "hung"}
        /\ req'[r].res # "ok")
       => /\ parking_tickets'[req[r].id].payment_status = "pending"
          /\ parking_tickets'[req[r].id].check_out_time = NULL
          /\ {i \in 1..Len(payments') : payments'[i].ticket_id = req[r].id} = {}]_vars

\* the least number of whole hours covering a duration in minutes
HoursCovering(minutes) ==
  CHOOSE k \in 0..minutes :
    /\ k * MinutesPerHour >= minutes
    /\ \A j \in 0..minutes : j * MinutesPerHour >= minutes => k <= j

\* C6: the amount billed at check-out is the stored duration rounded up to
\* whole hours, times the hourly rate of the ticket's slot.
C6_BillingLaw ==
  \A t \in Tickets :
    parking_tickets[t].total_amount # NULL =>
      parking_tickets[t].total_amount =
        HoursCovering(parking_tickets[t].duration_hours) * RateOf(t)

\* a stay of 72 minutes at rate 5 billed 10
C6_Witness ==
  \E t \in Tickets :
    /\ parking_tickets[t].duration_hours = 72
    /\ RateOf(t) = 5
    /\ parking_tickets[t].total_amount = 10

\* C7: a settled ticket is billed at least one hour: a stay of no duration
\* bills exactly the hourly rate, and no settled ticket is billed 0.
C7_MinimumOneHour ==
  \A t \in Tickets :
    parking_tickets[t].payment_status = "paid" =>
      /\ parking_tickets[t].total_amount # 0
      /\ parking_tickets[t].duration_hours = 0 =>
            parking_tickets[t].total_amount = RateOf(t)

\* C8: with one request at a time, the recovery path inserts a payment only
\* for a ticket that has none, and leaves it with exactly one: a second
\* receipt view inserts nothing.
C8_RecoveryIdempotent ==
  [][\A r \in Requests :
       (req[r].op = "receipt" /\ Len(payments') > Len(payments))
       => /\ RowsOf(req[r].id) = {}
          /\ Cardinality({i \in 1..Len(payments') :
                            payments'[i].ticket_id = req[r].id}) = 1]_vars

\* a second receipt view found the single payment row the first one recovered
C8_Witness ==
  \E r \in Requests :
    /\ req[r].pc = "rc_receipt"
    /\ req[r].paymentCheck # 0
    /\ payments[req[r].paymentCheck].reference_number = "RECOVERY"
    /\ Cardinality(RowsOf(req[r].id)) = 1

\* C9: a shift row is created only for a cashier who has no open shift for the
\* current date.
C9_ShiftAlreadyOpenRejected ==
  [][Len(shifts') > Len(shifts) =>
       \A i \in 1..Len(shifts) :
         ~(/\ shifts[i].cashier_id = shifts'[Len(shifts')].cashier_id
           /\ shifts[i].shift_date = Date(clock)
           /\ shifts[i].status = "open")]_vars

\* C10: no cashier has two open shifts for the same date.
C10_OneOpenShiftPerDay ==
  \A i, j \in 1..Len(shifts) :
    (/\ i # j
     /\ shifts[i].status = "open" /\ shifts[j].status = "open"
     /\ shifts[i].cashier_id = shifts[j].cashier_id)
    => shifts[i].shift_date # shifts[j].shift_date

\* C11: a close-shift request goes on to its writes only for a cashier who has
\* an open shift for the current date; the request answered NoOpenShift
\* changes no shift row.
C11_NoOpenShiftRejected ==
  [][\A r \in Requests :
       /\ (req[r].pc # "cs_sum" /\ req'[r].pc = "cs_sum") =>
             \E i \in 1..Len(shifts) :
               /\ shifts[i].cashier_id = req'[r].user
               /\ shifts[i].shift_date = Date(clock)
               /\ shifts[i].status = "open"
       /\ (started' # started /\ Admit(r) /\ req'[r].res = "NoOpenShift") =>
             shifts' = shifts]_vars

\* a close-shift request was refused while an open shift of another cashier
\* or of another date exists
C11_Witness ==
  \E r \in Requests :
    /\ req[r].res = "NoOpenShift"
    /\ \E i \in 1..Len(shifts) : shifts[i].status = "open"

\* C12: the write of a close-shift request marks the row it selected closed,
\* stamps its close time, stores the closing amount and the collected total
\* the request computed, and stores variance = closing amount - collected
\* total, whatever the opening amount; it touches no other row.
C12_CloseShiftRecords ==
  [][\A r \in Requests :
       (req[r].pc = "cs_update" /\ req'[r].pc = "cs_audit") =>
         /\ shifts'[req[r].id].status = "closed"
         /\ shifts'[req[r].id].close_time = clock
         /\ shifts'[req[r].id].closing_amount = req[r].closing_amount
         /\ shifts'[req[r].id].total_collected = req[r].totalCollected
         /\ shifts'[req[r].id].variance + req[r].totalCollected = req[r].closing_amount
         /\ shifts'[req[r].id].opening_amount = shifts[req[r].id].opening_amount
         /\ \A i \in 1..Len(shifts) : i # req[r].id => shifts'[i] = shifts[i]]_vars

\* a shift opened with 100 was closed with 325 in the drawer after 120 had
\* been collected: the variance is 205
C12_Witness ==
  \E i \in 1..Len(shifts) :
    /\ shifts[i].status = "closed"
    /\ shifts[i].opening_amount = 100
    /\ shifts[i].closing_amount = 325
    /\ shifts[i].total_collected = 120
    /\ shifts[i].variance = 205

RECURSIVE SumOpenedOn(_, _, _)
\* the amounts of payments 1..n whose ticket was checked in by cashier u on
\* the given day, whoever recorded the payment
SumOpenedOn(u, day, n) ==
  IF n = 0 THEN 0
  ELSE SumOpenedOn(u, day, n - 1) +
       (IF /\ parking_tickets[payments[n].ticket_id].cashier_id = u
           /\ Date(parking_tickets[payments[n].ticket_id].check_in_time) = day
        THEN payments[n].amount ELSE 0)

\* C13: the collected total a close-shift request is about to record is the
\* sum of the amounts of all payments whose ticket was checked in by that
\* cashier on the current date, whichever cashier recorded the payment.
C13_CollectedByCheckInDate ==
  \A r \in Requests :
    req[r].pc = "cs_update" =>
      req[r].totalCollected = SumOpenedOn(req[r].user, Date(clock), Len(payments))

\* C14: a failed audit write does not disturb the operation: the step of
\* a check-in, check-out, open-shift or close-shift that writes the audit
\* event always ends with the normal success response.
C14_AuditFailureHarmless ==
  [][\A r \in Requests :
       (/\ req[r].pc \in {"ci_audit", "co_audit", "os_audit", "cs_audit"}
        /\ req'[r].pc # req[r].pc)
       => (req'[r].pc = "done" /\ req'[r].res = "ok")]_vars

\* the audit events of one kind written for a ticket
EventsIn(log, action, t) ==
  BagCardinality([x \in {y \in BagToSet(log) : y.action = action /\ y.record_id = t}
                    |-> CopiesIn(x, log)])
EventsOf(action, t) == EventsIn(audit_logs, action, t)

C16_UnavailableSlotRejected ==
  [][\A r \in Requests :
       /\ (req[r].pc # "ci_vehicle" /\ req'[r].pc = "ci_vehicle") =>
             /\ req'[r].slot_id \in SlotIds
             /\ parking_slots[req'[r].slot_id].status = "vacant"
       /\ (started' # started /\ Admit(r) /\ req'[r].res = "SlotUnavailable") =>
             /\ parking_tickets' = parking_tickets
             /\ audit_logs' = audit_logs
             /\ parking_slots' = parking_slots]_vars

\* with no storage failure so far, a check-in was refused while the first
\* slot is reserved or out of service
C16_Witness ==
  \E r \in Requests :
    /\ faults = 0
    /\ req[r].res = "SlotUnavailable"
    /\ parking_slots[1].status \in {"reserved", "out_of_service"}

\* C17: no two tickets share a ticket number, also when a check-in draws the
\* number of the same clock reading as an earlier one.
C17_UniqueTicketNumbers ==
  \A i, j \in Tickets :
    i # j => parking_tickets[i].ticket_number # parking_tickets[j].ticket_number

\* a check-in is about to insert a ticket under a number that a stored
\* ticket already carries
C17_Witness ==
  \E r \in Requests, t \in Tickets :
    /\ req[r].pc = "ci_ticket"
    /\ req[r].number = parking_tickets[t].ticket_number

\* C18: no step of a check-out ends the handler without a response, the
\* failure of the ticket update included.
C18_CheckOutAlwaysAnswered ==
  [][\A r \in Requests : req[r].op = "checkOut" => req'[r].pc # "hung"]_vars

\* C19: the recovery path inserts a payment only when the amount is on the
\* ticket or can be computed again: when the stored total is absent or zero
\* and the slot's rate or one of the ticket's timestamps is missing, it
\* inserts nothing.
C19_NoMadeUpAmount ==
  [][\A r \in Requests :
       (req[r].op = "receipt" /\ Len(payments') > Len(payments)) =>
         LET t == parking_tickets[req[r].id]
         IN  \/ t.total_amount \notin {NULL, 0}
             \/ /\ parking_slots[t.slot_id].hourly_rate # NULL
                /\ t.check_in_time # NULL
                /\ t.check_out_time # NULL]_vars

\* C20: no step removes a ticket: every ticket row of a state is still
\* there in the next one.
C20_TicketsOnlyGrow ==
  [][\A i \in 1..Len(parking_tickets) :
       parking_tickets[i] # GoneTicket =>
         (i <= Len(parking_tickets') /\ parking_tickets'[i] # GoneTicket)]_vars

\* C20 as amended: a ticket is removed only by the clean-up of a user
\* deletion that was sent with force_delete = 'true', and only when it is a
\* ticket of the user being deleted; every other step keeps every ticket.
C20_OnlyForceDeleteRemoves ==
  [][\A i \in 1..Len(parking_tickets) :
       (/\ parking_tickets[i] # GoneTicket
        /\ ~(i <= Len(parking_tickets') /\ parking_tickets'[i] # GoneTicket))
       => \E r \in Requests :
            /\ req[r].pc = "du_clean"
            /\ req[r].force_delete = "true"
            /\ req[r].id = parking_tickets[i].cashier_id]_vars

\* the force-delete of a cashier went through and took the cashier's ticket
\* with it, while a ticket of another cashier is still there
C20_Witness ==
  /\ \E i \in 1..Len(parking_tickets) : parking_tickets[i] = GoneTicket
  /\ TicketRows # {}
  /\ users # Users

\* C21: two receipt views of the same paid ticket that has no payment row,
\* running together with their look-up and their insert interleaved in any
\* order, leave one payment row for the ticket: no ticket ever has two
\* recovered payment rows.
C21_OneRecoveredPayment ==
  \A t \in Tickets :
    Cardinality({i \in RowsOf(t) : payments[i].reference_number = "RECOVERY"}) <= 1

\* C22: a receipt view that runs while a check-out of the same ticket stands
\* between its ticket update and its payment insert does not take the ticket
\* for paid-without-payment: it inserts no recovery payment, so the check-out's
\* own payment row stays the only one.
C22_NoRecoveryDuringCheckOut ==
  [][\A r, q \in Requests :
       (/\ req[q].op = "checkOut" /\ req[q].pc = "co_payment"
        /\ req[r].op = "receipt" /\ req[r].id = req[q].id
        /\ req[r].pc = "rc_insert" /\ req'[r].pc # "rc_insert")
       => payments' = payments]_vars

\* C23: a check-in whose slot write failed (the slot is not occupied when the
\* handler comes to its last step) and a check-out whose slot write failed
\* (the slot is not vacant) are not answered with success.
C23_SlotWriteFailureSurfaced ==
  [][\A r \in Requests :
       (\/ /\ req[r].pc = "ci_audit"
           /\ parking_slots[req[r].slot_id].status # "occupied"
        \/ /\ req[r].pc = "co_audit"
           /\ parking_slots[req[r].slot_id].status # "vacant")
       => ~(req'[r].pc = "done" /\ req'[r].res = "ok")]_vars

\* C24: when a check-in ends in an error at its vehicle upsert, its driver
\* upsert or its ticket insert, the slot it asked for is vacant and no ticket
\* without check-out time references that slot.
C24_FailedCheckInLeavesSlotFree ==
  [][\A r \in Requests :
       (/\ req[r].pc \in {"ci_vehicle", "ci_driver", "ci_ticket"}
        /\ req'[r].pc = "done" /\ req'[r].res # "ok")
       => /\ parking_slots'[req[r].slot_id].status = "vacant"
          /\ \A t \in 1..Len(parking_tickets') :
               parking_tickets'[t].slot_id = req[r].slot_id =>
                 parking_tickets'[t].check_out_time # NULL]_vars

\* C25: the payment row the recovery path inserts carries the ticket's stored
\* total when that is not zero, and otherwise the stay (check-out time minus
\* check-in time) rounded up to whole hours times the hourly rate of the
\* ticket's slot; its method is cash and its reference number is "RECOVERY".
C25_RecoveredPaymentRow ==
  [][\A r \in Requests :
       (req[r].pc = "rc_insert" /\ Len(payments') > Len(payments)) =>
         LET p == payments'[Len(payments')]
             t == parking_tickets[req[r].id]
         IN  /\ p.ticket_id = req[r].id
             /\ p.payment_method = "cash"
             /\ p.reference_number = "RECOVERY"
             /\ p.amount =
                  IF t.total_amount \notin {NULL, 0} THEN t.total_amount
                  ELSE HoursCovering(t.check_out_time - t.check_in_time)
                         * RateOf(req[r].id)]_vars

\* a ticket settled for 5 whose payment row was lost has been given a
\* recovered payment of 5
C25_Witness ==
  \E i \in PaymentRows :
    /\ payments[i].reference_number = "RECOVERY"
    /\ payments[i].payment_method = "cash"
    /\ payments[i].amount = 5
    /\ parking_tickets[payments[i].ticket_id].total_amount = 5

\* C26: no two payment rows share a receipt number, whether written by a
\* check-out or by the recovery path, also when an insert carries the number
\* of the same clock reading as an earlier one.
C26_UniqueReceiptNumbers ==
  \A i, j \in PaymentRows :
    i # j => payments[i].receipt_number # payments[j].receipt_number

\* a check-out or a recovery is about to insert a payment under a receipt
\* number that a stored payment already carries
C26_Witness ==
  \E r \in Requests, i \in PaymentRows :
    /\ req[r].pc \in {"co_payment", "rc_insert"}
    /\ req[r].number = payments[i].receipt_number

\* C27: a ticket only moves forward: it is created pending with no check-out
\* time, a pending ticket stays as it is or becomes paid with its check-out
\* time set, no ticket becomes cancelled or pending again, and a paid ticket
\* keeps its check-out time, duration and total for good.
C27_LifecycleForwardOnly ==
  [][/\ \A t \in 1..Len(parking_tickets') :
          t > Len(parking_tickets) =>
            /\ parking_tickets'[t].payment_status = "pending"
            /\ parking_tickets'[t].check_out_time = NULL
     /\ \A t \in 1..Len(parking_tickets) :
          /\ parking_tickets'[t].payment_status \in {"pending", "paid"}
          /\ parking_tickets[t].payment_status = "pending" =>
               \/ parking_tickets'[t] = parking_tickets[t]
               \/ /\ parking_tickets'[t].payment_status = "paid"
                  /\ parking_tickets'[t].check_out_time # NULL
          /\ parking_tickets[t].payment_status = "paid" =>
               /\ parking_tickets'[t].payment_status = "paid"
               /\ parking_tickets'[t].check_out_time = parking_tickets[t].check_out_time
               /\ parking_tickets'[t].duration_hours = parking_tickets[t].duration_hours
               /\ parking_tickets'[t].total_amount = parking_tickets[t].total_amount]_vars

\* C28: the status of every slot is always one of vacant, occupied, reserved,
\* out_of_service, whatever the status API and the slot edit form are sent.
C28_SlotStatusDomain ==
  \A s \in SlotIds : parking_slots[s].status \in SlotStatuses

\* C29: every ticket's vehicle id and driver id name a vehicle row and a
\* driver row that exist, also after check-ins that used a license plate or a
\* driver name again.
C29_TicketsKeepVehicleAndDriver ==
  \A t \in TicketRows :
    /\ parking_tickets[t].vehicle_id \in VehicleRows
    /\ parking_tickets[t].driver_id \in DriverRows

\* a later check-in under a license plate used before has replaced a vehicle
\* row, a driver name has been given twice, and a ticket is stored
C29_Witness ==
  /\ TicketRows # {}
  /\ \E i \in 1..Len(vehicles) : vehicles[i] = GoneVehicle
  /\ \E i, j \in DriverRows : i # j /\ drivers[i].full_name = drivers[j].full_name

\* C30: the amount of every payment row is the total stored on the ticket the
\* row references, whenever that total is not zero.
C30_PaymentMatchesTicketTotal ==
  \A i \in PaymentRows :
    LET total == parking_tickets[payments[i].ticket_id].total_amount
    IN  total \notin {NULL, 0} => payments[i].amount = total
====
